---- MODULE Spec2Model ----
(***************************************************************************)
(* The SQLite string extensions of osquery/sql/sqlite_string.cpp: split,   *)
(* regex_split, regex_replace and inet_aton.                               *)
(*                                                                         *)
(* A text is a sequence of one-character strings.  A fixed-width integer   *)
(* is a sequence of bytes, most significant byte first, so that the 32 and *)
(* 64 bit conversions of the code keep their width.                        *)
(***************************************************************************)
EXTENDS Integers, Sequences, FiniteSets, TLC

VARIABLES
  build,       \* the build: host byte order and the width of size_t
  registered,  \* the function names bound in the engine's function table
  pc,          \* "idle", or how the last call ended: "returned" | "thrown"
  fn,          \* the name of the function the engine called last
  argv,        \* the argument values of that call
  results,     \* the sqlite3_result_* calls made on the call's context, in order
  computed     \* whether the call reached the split / replace strategy

vars == <<build, registered, pc, fn, argv, results, computed>>

----------------------------------------------------------------------------
(* Bounds and input samples *)

MaxLen == 3

Alphabet == {"a", ".", "0"}

RECURSIVE Strings(_, _)
Strings(S, n) ==
  IF n = 0 THEN {<<>>}
  ELSE LET shorter == Strings(S, n - 1)
       IN  shorter \cup {Append(s, c) : s \in {t \in shorter : Len(t) = n - 1}, c \in S}

IpText == <<"1", "9", "2", ".", "1", "6", "8", ".", "0", ".", "1">>

PathText == <<"a", ".", "b", ".", "c">>

InputTexts == Strings(Alphabet, MaxLen) \cup {IpText, PathText}

\* Delimiter sets for split, patterns for regex_split and regex_replace.
Tokens ==
  { <<>>, <<".">>, <<".", "0">>, <<"a">>, <<"\\", ".">>, <<"\\", ".", "0">>,
    <<"a", "+">>, <<".", "+">>, <<"0", ".">>, <<"(">>, <<"+">>, <<"\\">>, <<"a", "(">> }

Replacements == { <<>>, <<"b">>, <<"a", "a">>, <<"$", "&">>, <<"[", "$", "&", "]">> }

Indexes == {-2147483647, -65536, -1, 0, 1, 2, 3, 4, 5, 65536, 2147483647}

OctetSamples == {0, 1, 9, 127, 128, 168, 192, 255}

Builds == [littleEndian : BOOLEAN, sizeBytes : {4, 8}]

----------------------------------------------------------------------------
(* Values: the engine's call arguments (sqlite3_value) *)

Null == [type |-> "null", text |-> <<>>, int |-> 0]

Text(s) == [type |-> "text", text |-> s, int |-> 0]

Integer(i) == [type |-> "integer", text |-> <<>>, int |-> i]

sqlite3_value_type(v) == v.type

sqlite3_value_text(v) == v.text

\* The argument as a C int (the samples are in the range of a 32-bit int).
sqlite3_value_int(v) == v.int

(* Results: what a sqlite3_result_* call reports on the context *)

ResultNull == [kind |-> "null", text |-> <<>>, int64 |-> <<>>, msg |-> ""]

ResultText(s) == [kind |-> "text", text |-> s, int64 |-> <<>>, msg |-> ""]

ResultInt64(b) == [kind |-> "integer", text |-> <<>>, int64 |-> b, msg |-> ""]

ResultError(m) == [kind |-> "error", text |-> <<>>, int64 |-> <<>>, msg |-> m]

----------------------------------------------------------------------------
(* Fixed-width integers as big-endian byte sequences *)

RECURSIVE NatBytes(_, _)
\* The w-byte unsigned representation of n (0 <= n < 2^31).
NatBytes(n, w) ==
  IF w = 0 THEN <<>> ELSE Append(NatBytes(n \div 256, w - 1), n % 256)

\* The 4-byte two's complement representation of the int i.
Int32Bytes(i) ==
  IF i >= 0 THEN NatBytes(i, 4)
  ELSE LET m == NatBytes((-i) - 1, 4) IN [k \in 1..4 |-> 255 - m[k]]

\* An integer conversion to a wider type: the sign bit (or zero) fills the new bytes.
SignExtend(b, w) ==
  [k \in 1..(w - Len(b)) |-> IF b[1] >= 128 THEN 255 ELSE 0] \o b

ZeroExtend(b, w) == [k \in 1..(w - Len(b)) |-> 0] \o b

RECURSIVE BytesGE(_, _)
\* a >= b for two unsigned integers of the same width.
BytesGE(a, b) ==
  IF a = <<>> THEN TRUE
  ELSE IF a[1] # b[1] THEN a[1] > b[1]
  ELSE BytesGE(Tail(a), Tail(b))

RECURSIVE BytesToNat(_)
\* The value of an unsigned integer below 2^31.
BytesToNat(b) ==
  IF b = <<>> THEN 0 ELSE BytesToNat(SubSeq(b, 1, Len(b) - 1)) * 256 + b[Len(b)]

\* The conversion through a 16-bit unsigned type: only the low two bytes survive.
StaticCastSizeT_narrow16(i, sizeBytes) ==
  ZeroExtend(SubSeq(Int32Bytes(i), 3, 4), sizeBytes)

\* static_cast<size_t>(int)
StaticCastSizeT(i, sizeBytes) == SignExtend(Int32Bytes(i), sizeBytes)

\* std::vector::size()
VectorSize(v, sizeBytes) == NatBytes(Len(v), sizeBytes)

----------------------------------------------------------------------------
(* boost::regex over the pattern syntax the samples use: a literal          *)
(* character, "." (any character), a backslash escape of a punctuation      *)
(* character, and the postfix "+" (one or more, greedy).  An unmatched      *)
(* parenthesis or bracket, a "+" with nothing to repeat and a trailing      *)
(* backslash are rejected by the compiler, which throws boost::regex_error. *)

BadExpression == [ok |-> FALSE, atoms |-> <<>>]

Atom(kind, ch) == [kind |-> kind, ch |-> ch, plus |-> FALSE]

RECURSIVE ParseRegex(_, _, _)
ParseRegex(p, i, acc) ==
  IF i > Len(p) THEN [ok |-> TRUE, atoms |-> acc]
  ELSE LET c == p[i] IN
    CASE c = "\\" ->
           IF i = Len(p) THEN BadExpression
           ELSE ParseRegex(p, i + 2, Append(acc, Atom("lit", p[i + 1])))
      [] c \in {"(", ")", "["} -> BadExpression
      [] c = "+" ->
           IF acc = <<>> THEN BadExpression
           ELSE ParseRegex(p, i + 1, [acc EXCEPT ![Len(acc)].plus = TRUE])
      [] c = "." -> ParseRegex(p, i + 1, Append(acc, Atom("any", ".")))
      [] OTHER -> ParseRegex(p, i + 1, Append(acc, Atom("lit", c)))

\* boost::regex(pattern): ok = FALSE stands for the constructor throwing.
boost_regex(pattern) == ParseRegex(pattern, 1, <<>>)

CharMatches(atom, ch) == atom.kind = "any" \/ atom.ch = ch

RECURSIVE RunLen(_, _, _)
\* How many characters of text, from position p on, match the atom.
RunLen(atom, text, p) ==
  IF p <= Len(text) /\ CharMatches(atom, text[p]) THEN 1 + RunLen(atom, text, p + 1) ELSE 0

RECURSIVE MatchAt(_, _, _, _)
RECURSIVE TryRun(_, _, _, _, _)
\* The position after the match of atoms[i..] that starts at p, 0 when there is
\* none; a "+" takes the longest run first and gives characters back.
MatchAt(atoms, i, text, p) ==
  IF i > Len(atoms) THEN p
  ELSE IF atoms[i].plus THEN TryRun(atoms, i, text, p, RunLen(atoms[i], text, p))
  ELSE IF p <= Len(text) /\ CharMatches(atoms[i], text[p])
       THEN MatchAt(atoms, i + 1, text, p + 1)
       ELSE 0

TryRun(atoms, i, text, p, k) ==
  IF k = 0 THEN 0
  ELSE LET e == MatchAt(atoms, i + 1, text, p + k)
       IN  IF e # 0 THEN e ELSE TryRun(atoms, i, text, p, k - 1)

NoMatch == [s |-> 0, e |-> 0]

RECURSIVE FindFrom(_, _, _)
\* The leftmost match at or after position from.
FindFrom(atoms, text, from) ==
  IF from > Len(text) + 1 THEN NoMatch
  ELSE LET e == MatchAt(atoms, 1, text, from)
       IN  IF e # 0 THEN [s |-> from, e |-> e] ELSE FindFrom(atoms, text, from + 1)

RECURSIVE AllMatches(_, _, _)
\* The non-overlapping matches, left to right.
AllMatches(atoms, text, from) ==
  LET m == FindFrom(atoms, text, from)
  IN  IF m = NoMatch THEN <<>>
      ELSE <<m>> \o AllMatches(atoms, text, IF m.e > m.s THEN m.e ELSE m.e + 1)

RECURSIVE Segments(_, _, _)
\* The pieces of text between the matches ms, from position cursor on.
Segments(text, ms, cursor) ==
  IF ms = <<>> THEN <<SubSeq(text, cursor, Len(text))>>
  ELSE <<SubSeq(text, cursor, ms[1].s - 1)>> \o Segments(text, Tail(ms), ms[1].e)

\* boost::algorithm::split_regex(result, input, rx)
split_regex(input, rx) == Segments(input, AllMatches(rx.atoms, input, 1), 1)

RECURSIVE Format(_, _)
\* The replacement template with "$&" standing for the matched text.
Format(fmt, matched) ==
  IF fmt = <<>> THEN <<>>
  ELSE IF Len(fmt) >= 2 /\ fmt[1] = "$" /\ fmt[2] = "&"
       THEN matched \o Format(SubSeq(fmt, 3, Len(fmt)), matched)
       ELSE <<fmt[1]>> \o Format(Tail(fmt), matched)

RECURSIVE ReplaceMatches(_, _, _, _)
ReplaceMatches(text, ms, cursor, fmt) ==
  IF ms = <<>> THEN SubSeq(text, cursor, Len(text))
  ELSE SubSeq(text, cursor, ms[1].s - 1)
       \o Format(fmt, SubSeq(text, ms[1].s, ms[1].e - 1))
       \o ReplaceMatches(text, Tail(ms), ms[1].e, fmt)

\* boost::regex_replace(input, rx, fmt) with the default flags: every match.
boost_regex_replace(input, rx, fmt) ==
  ReplaceMatches(input, AllMatches(rx.atoms, input, 1), 1, fmt)

----------------------------------------------------------------------------
(* The strategies *)

Range(s) == {s[k] : k \in 1..Len(s)}

RECURSIVE Runs(_, _, _, _)
\* The maximal runs of characters of s[i..] that are not in delims; cur is the
\* run being read.
Runs(s, delims, i, cur) ==
  IF i > Len(s) THEN (IF cur = <<>> THEN <<>> ELSE <<cur>>)
  ELSE IF s[i] \in delims
       THEN (IF cur = <<>> THEN <<>> ELSE <<cur>>) \o Runs(s, delims, i + 1, <<>>)
       ELSE Runs(s, delims, i + 1, Append(cur, s[i]))

\* osquery::split(s, delim) of osquery/core/conversions: each character of
\* delim is a delimiter.
split(s, delim) == Runs(s, Range(delim), 1, <<>>)

RECURSIVE SubstringSplit(_, _, _, _)
\* The pieces of s[i..] between the occurrences of the whole string delim.
SubstringSplit(s, delim, i, cur) ==
  IF i > Len(s) THEN <<cur>>
  ELSE IF i + Len(delim) - 1 <= Len(s) /\ SubSeq(s, i, i + Len(delim) - 1) = delim
       THEN <<cur>> \o SubstringSplit(s, delim, i + Len(delim), <<>>)
       ELSE SubstringSplit(s, delim, i + 1, Append(cur, s[i]))

\* tokenSplit calling a splitter that takes the token as one substring.
tokenSplit_substring(input, tokens) ==
  [ok |-> TRUE, parts |-> SubstringSplit(input, tokens, 1, <<>>)]

\* ok = FALSE stands for an exception leaving the strategy.
tokenSplit(input, tokens) == [ok |-> TRUE, parts |-> split(input, tokens)]

regexSplit(input, token) ==
  LET rx == boost_regex(token)
  IN  IF rx.ok THEN [ok |-> TRUE, parts |-> split_regex(input, rx)]
      ELSE [ok |-> FALSE, parts |-> <<>>]

\* The replace with boost's format_first_only flag: the leftmost match alone.
regexReplace_firstOnly(input, pattern, replace_with) ==
  LET rx == boost_regex(pattern)
      ms == AllMatches(rx.atoms, input, 1)
  IN  IF rx.ok
      THEN [ok |-> TRUE,
            text |-> ReplaceMatches(input, IF ms = <<>> THEN <<>> ELSE <<ms[1]>>, 1,
                                    replace_with)]
      ELSE [ok |-> FALSE, text |-> <<>>]

regexReplace(input, pattern, replace_with) ==
  LET rx == boost_regex(pattern)
  IN  IF rx.ok THEN [ok |-> TRUE, text |-> boost_regex_replace(input, rx, replace_with)]
      ELSE [ok |-> FALSE, text |-> <<>>]

\* A call through the std::function the driver was given.
StringSplitFunction(f, input, tokens) ==
  IF f = "tokenSplit" THEN tokenSplit(input, tokens) ELSE regexSplit(input, tokens)

StringReplaceFunction(f, input, find_string, replace_with) ==
  regexReplace(input, find_string, replace_with)

----------------------------------------------------------------------------
(* The address codec's library calls *)

Digits == <<"0", "1", "2", "3", "4", "5", "6", "7", "8", "9">>

IsDigit(ch) == ch \in Range(Digits)

DigitValue(ch) == (CHOOSE k \in 1..10 : Digits[k] = ch) - 1

RECURSIVE inet_pton4(_, _, _, _)
\* The parse of src[i..]: tmp holds the octets begun so far (the last one is the
\* one being read), saw_digit whether the last one has a digit yet.  An octet
\* above 255, a leading zero, an empty octet, a character that is neither a
\* digit nor a dot, and fewer or more than four octets all fail.
inet_pton4(src, i, tmp, saw_digit) ==
  LET octets == IF saw_digit THEN Len(tmp) ELSE Len(tmp) - 1
      fail == [ok |-> FALSE, bytes |-> <<>>]
  IN  IF i > Len(src)
      THEN (IF octets < 4 THEN fail ELSE [ok |-> TRUE, bytes |-> tmp])
      ELSE LET ch == src[i] IN
        IF IsDigit(ch)
        THEN LET new == tmp[Len(tmp)] * 10 + DigitValue(ch) IN
             IF saw_digit /\ tmp[Len(tmp)] = 0 THEN fail
             ELSE IF new > 255 THEN fail
             ELSE IF ~saw_digit /\ octets + 1 > 4 THEN fail
             ELSE inet_pton4(src, i + 1, [tmp EXCEPT ![Len(tmp)] = new], TRUE)
        ELSE IF ch = "." /\ saw_digit
        THEN (IF octets = 4 THEN fail ELSE inet_pton4(src, i + 1, Append(tmp, 0), FALSE))
        ELSE fail

\* inet_pton(AF_INET, address, &sin_addr): on success the four octets, in the
\* order they are written in memory (network byte order).
inet_pton(address) == inet_pton4(address, 1, <<0>>, FALSE)

Reverse(b) == [k \in 1..Len(b) |-> b[Len(b) + 1 - k]]

\* The uint32_t the host reads from four bytes of memory.
s_addr(mem, littleEndian) == IF littleEndian THEN Reverse(mem) ELSE mem

\* The host-order value used as it is, with no byte swap.
ntohl_noswap(x, littleEndian) == x

ntohl(x, littleEndian) == IF littleEndian THEN Reverse(x) ELSE x

----------------------------------------------------------------------------
(* The registered functions.  A handler's outcome is how the call ended,   *)
(* the results it reported on the context and whether it ran its strategy. *)

Returned(rs, ran) == [pc |-> "returned", results |-> rs, computed |-> ran]

\* An exception left the handler: nothing catches it before the engine's frames.
Thrown(rs, ran) == [pc |-> "thrown", results |-> rs, computed |-> ran]

AnyNull(args) == \E k \in 1..Len(args) : sqlite3_value_type(args[k]) = "null"

\* The bound check against size() - 1: the last substring is never selected.
SelectIndex_offByOne(result, index, sizeBytes) ==
  IF result = <<>> \/ BytesGE(index, VectorSize(Tail(result), sizeBytes))
  THEN <<ResultNull>>
  ELSE <<ResultText(result[BytesToNat(index) + 1])>>

\* The selection of callStringSplitFunc, after the strategy returned result.
SelectIndex(result, index, sizeBytes) ==
  IF BytesGE(index, VectorSize(result, sizeBytes))
  THEN <<ResultNull>>
  ELSE <<ResultText(result[BytesToNat(index) + 1])>>

\* The driver validating the token before it looks for a Null argument.
callStringSplitFunc_validateFirst(args, f, sizeBytes) ==
  IF sqlite3_value_text(args[2]) = <<>>
  THEN Returned(<<ResultError("Invalid input to split function")>>, FALSE)
  ELSE IF AnyNull(args) THEN Returned(<<ResultNull>>, FALSE)
  ELSE LET result == StringSplitFunction(f, sqlite3_value_text(args[1]),
                                         sqlite3_value_text(args[2]))
           index == StaticCastSizeT(sqlite3_value_int(args[3]), sizeBytes)
       IN  IF ~result.ok THEN Thrown(<<>>, TRUE)
           ELSE Returned(SelectIndex(result.parts, index, sizeBytes), TRUE)

\* The driver without the return after sqlite3_result_error: it goes on to split.
callStringSplitFunc_noReturn(args, f, sizeBytes) ==
  IF AnyNull(args) THEN Returned(<<ResultNull>>, FALSE)
  ELSE LET input == sqlite3_value_text(args[1])
           token == sqlite3_value_text(args[2])
           index == StaticCastSizeT(sqlite3_value_int(args[3]), sizeBytes)
           reported == IF token = <<>>
                       THEN <<ResultError("Invalid input to split function")>>
                       ELSE <<>>
           result == StringSplitFunction(f, input, token)
       IN  IF ~result.ok THEN Thrown(reported, TRUE)
           ELSE Returned(reported \o SelectIndex(result.parts, index, sizeBytes), TRUE)

callStringSplitFunc(args, f, sizeBytes) ==
  IF AnyNull(args) THEN Returned(<<ResultNull>>, FALSE)
  ELSE LET input == sqlite3_value_text(args[1])
           token == sqlite3_value_text(args[2])
           index == StaticCastSizeT(sqlite3_value_int(args[3]), sizeBytes)
       IN  IF token = <<>>
           THEN Returned(<<ResultError("Invalid input to split function")>>, FALSE)
           ELSE LET result == StringSplitFunction(f, input, token)
                IN  IF ~result.ok THEN Thrown(<<>>, TRUE)
                    ELSE Returned(SelectIndex(result.parts, index, sizeBytes), TRUE)

\* The driver without the find_string.empty() check.
callStringReplaceFunc_noEmptyCheck(args, f) ==
  IF AnyNull(args) THEN Returned(<<ResultNull>>, FALSE)
  ELSE LET result == StringReplaceFunction(f, sqlite3_value_text(args[1]),
                                           sqlite3_value_text(args[2]),
                                           sqlite3_value_text(args[3]))
       IN  IF ~result.ok THEN Thrown(<<>>, TRUE)
           ELSE Returned(<<ResultText(result.text)>>, TRUE)

callStringReplaceFunc(args, f) ==
  IF AnyNull(args) THEN Returned(<<ResultNull>>, FALSE)
  ELSE LET input == sqlite3_value_text(args[1])
           find_string == sqlite3_value_text(args[2])
           replace_with == sqlite3_value_text(args[3])
       IN  IF find_string = <<>>
           THEN Returned(<<ResultError("Invalid substring to find in replace function")>>,
                         FALSE)
           ELSE LET result == StringReplaceFunction(f, input, find_string, replace_with)
                IN  IF ~result.ok THEN Thrown(<<>>, TRUE)
                    ELSE Returned(<<ResultText(result.text)>>, TRUE)

\* The codec reporting a parse failure as an error instead of Null.
ip4StringToDecimal_errorOnFailure(args, littleEndian) ==
  IF AnyNull(args) THEN Returned(<<ResultNull>>, FALSE)
  ELSE LET address == sqlite3_value_text(args[1])
       IN  IF ":" \in Range(address) THEN Returned(<<ResultNull>>, FALSE)
           ELSE LET in4 == inet_pton(address)
                IN  IF in4.ok
                    THEN Returned(
                           <<ResultInt64(ZeroExtend(
                               ntohl(s_addr(in4.bytes, littleEndian), littleEndian), 8))>>,
                           TRUE)
                    ELSE Returned(<<ResultError("Invalid address")>>, TRUE)

ip4StringToDecimal(args, littleEndian) ==
  IF AnyNull(args) THEN Returned(<<ResultNull>>, FALSE)
  ELSE LET address == sqlite3_value_text(args[1])
       IN  IF ":" \in Range(address) THEN Returned(<<ResultNull>>, FALSE)
           ELSE LET in4 == inet_pton(address)
                IN  IF in4.ok
                    THEN Returned(
                           <<ResultInt64(ZeroExtend(
                               ntohl(s_addr(in4.bytes, littleEndian), littleEndian), 8))>>,
                           TRUE)
                    ELSE Returned(<<ResultNull>>, TRUE)

----------------------------------------------------------------------------
(* The argument values the engine calls with *)

TextArgs == {Null} \cup {Text(s) : s \in InputTexts}

TokenArgs == {Null} \cup {Text(s) : s \in Tokens}

ReplacementArgs == {Null} \cup {Text(s) : s \in Replacements}

IndexArgs == {Null} \cup {Integer(i) : i \in Indexes}

RECURSIVE Decimal(_)
Decimal(n) == IF n < 10 THEN <<Digits[n + 1]>> ELSE Append(Decimal(n \div 10), Digits[(n % 10) + 1])

Dotted(a, b, c, d) ==
  Decimal(a) \o <<".">> \o Decimal(b) \o <<".">> \o Decimal(c) \o <<".">> \o Decimal(d)

MalformedAddresses ==
  { <<":", ":", "1">>, <<"1", ".", "2", ".", "3">>,
    <<"2", "5", "6", ".", "1", ".", "1", ".", "1">>,
    <<"1", ".", "2", ".", "3", ".", "4", ".", "5">>,
    <<"1", ".", ".", "2", ".", "3">>, <<"1", ".", "2", ".", "3", ".">>,
    <<"1", ".", "2", ".", "3", ".", "4", ":", "8", "0">>,
    <<"1", ".", "2", ".", "3", ".", "4", "a">>,
    <<"0", "1", ".", "2", ".", "3", ".", "4">> }

AddressArgs ==
  {Null}
    \cup {Text(Dotted(a, b, c, d)) : a \in OctetSamples, b \in OctetSamples,
                                     c \in OctetSamples, d \in OctetSamples}
    \cup {Text(s) : s \in MalformedAddresses \cup InputTexts}

----------------------------------------------------------------------------
(* The state machine *)

FunctionNames == {"split", "regex_split", "regex_replace", "inet_aton"}

Init ==
  /\ build \in Builds
  /\ registered = {}
  /\ pc = "idle"
  /\ fn = ""
  /\ argv = <<>>
  /\ results = <<>>
  /\ computed = FALSE

registerStringExtensions ==
  /\ pc = "idle"
  /\ registered' = registered \cup FunctionNames
  /\ UNCHANGED <<build, pc, fn, argv, results, computed>>

\* The engine calls the function bound to name with args; out is what the
\* handler did.
Call(name, args, out) ==
  /\ fn' = name
  /\ argv' = args
  /\ pc' = out.pc
  /\ results' = out.results
  /\ computed' = out.computed
  /\ UNCHANGED <<build, registered>>

tokenStringSplitFunc ==
  /\ pc = "idle"
  /\ "split" \in registered
  /\ \E input \in TextArgs, token \in TokenArgs, index \in IndexArgs :
       LET args == <<input, token, index>>
       IN  Call("split", args, callStringSplitFunc(args, "tokenSplit", build.sizeBytes))

regexStringSplitFunc ==
  /\ pc = "idle"
  /\ "regex_split" \in registered
  /\ \E input \in TextArgs, token \in TokenArgs, index \in IndexArgs :
       LET args == <<input, token, index>>
       IN  Call("regex_split", args,
                callStringSplitFunc(args, "regexSplit", build.sizeBytes))

regexStringReplaceFunc ==
  /\ pc = "idle"
  /\ "regex_replace" \in registered
  /\ \E input \in TextArgs, pattern \in TokenArgs, replace_with \in ReplacementArgs :
       LET args == <<input, pattern, replace_with>>
       IN  Call("regex_replace", args, callStringReplaceFunc(args, "regexReplace"))

ip4StringToDecimalFunc ==
  /\ pc = "idle"
  /\ "inet_aton" \in registered
  /\ \E address \in AddressArgs :
       LET args == <<address>>
       IN  Call("inet_aton", args, ip4StringToDecimal(args, build.littleEndian))

\* The call returned to the engine, which takes the result and is ready for the
\* next call, on a fresh context.
EngineNextCall ==
  /\ pc = "returned"
  /\ pc' = "idle"
  /\ fn' = ""
  /\ argv' = <<>>
  /\ results' = <<>>
  /\ computed' = FALSE
  /\ UNCHANGED <<build, registered>>

Next ==
  \/ registerStringExtensions
  \/ tokenStringSplitFunc
  \/ regexStringSplitFunc
  \/ regexStringReplaceFunc
  \/ ip4StringToDecimalFunc
  \/ EngineNextCall

Spec == Init /\ [][Next]_vars

----------------------------------------------------------------------------
(* Properties *)

SplitFunctions == {"split", "regex_split"}

TokenFunctions == {"split", "regex_split", "regex_replace"}

Called == pc # "idle"

InvalidArgument(r) == r.kind = "error"

\* The strategy a split function was registered with.
StrategyOf(name) == IF name = "split" THEN "tokenSplit" ELSE "regexSplit"

\* C1: in split, regex_split, regex_replace and inet_aton a call with a Null
\* argument returns Null as its one result, is never an error, and runs neither
\* the token / pattern validation nor the computation; so a Null argument with
\* an empty token yields Null and not InvalidArgument.
C1_NullPropagates ==
  (Called /\ AnyNull(argv)) =>
    /\ pc = "returned"
    /\ results = <<ResultNull>>
    /\ ~computed

C1_Witness ==
  /\ fn = "regex_replace"
  /\ argv[1] = Null
  /\ argv[2] = Text(<<>>)
  /\ results = <<ResultNull>>

\* C2 as stated: in split, regex_split and regex_replace an empty second
\* argument always fails with InvalidArgument whatever the first and the third
\* argument are, and the computation is not attempted; a non-empty second
\* argument never raises InvalidArgument.
C2_Original ==
  (Called /\ fn \in TokenFunctions /\ sqlite3_value_type(argv[2]) = "text") =>
    IF sqlite3_value_text(argv[2]) = <<>>
    THEN /\ pc = "returned"
         /\ Len(results) = 1
         /\ InvalidArgument(results[1])
         /\ ~computed
    ELSE \A k \in 1..Len(results) : ~InvalidArgument(results[k])

\* C2 amended: the same, for an empty second argument, when no argument of the
\* call is Null (a Null first or third argument yields Null first); a
\* non-empty second argument never raises InvalidArgument.
C2_EmptyTokenInvalid ==
  (Called /\ fn \in TokenFunctions /\ sqlite3_value_type(argv[2]) = "text") =>
    IF sqlite3_value_text(argv[2]) = <<>>
    THEN ~AnyNull(argv) =>
           /\ pc = "returned"
           /\ Len(results) = 1
           /\ InvalidArgument(results[1])
           /\ results[1].msg = (IF fn = "regex_replace"
                                THEN "Invalid substring to find in replace function"
                                ELSE "Invalid input to split function")
           /\ ~computed
    ELSE \A k \in 1..Len(results) : ~InvalidArgument(results[k])

C2_Witness ==
  /\ fn = "split"
  /\ argv = <<Text(<<"a", ".", "0">>), Text(<<>>), Integer(0)>>
  /\ Len(results) = 1
  /\ InvalidArgument(results[1])

\* C3: in split and regex_split, with no Null argument, a non-empty token and a
\* zero-based index i, when the strategy produces a SplitResult of length n the
\* call returns Null if i >= n and otherwise the Text of the i-th substring,
\* counted from the left.
C3_SplitSelectsIndex ==
  (Called /\ fn \in SplitFunctions /\ ~AnyNull(argv)
      /\ sqlite3_value_text(argv[2]) # <<>> /\ sqlite3_value_int(argv[3]) >= 0) =>
    LET produced == StringSplitFunction(StrategyOf(fn), sqlite3_value_text(argv[1]),
                                        sqlite3_value_text(argv[2]))
        i == sqlite3_value_int(argv[3])
    IN  produced.ok =>
          /\ pc = "returned"
          /\ results = IF i >= Len(produced.parts)
                       THEN <<ResultNull>>
                       ELSE <<ResultText(produced.parts[i + 1])>>

C3_Witness ==
  /\ fn = "regex_split"
  /\ argv = <<Text(IpText), Text(<<"\\", ".">>), Integer(1)>>
  /\ results = <<ResultText(<<"1", "6", "8">>)>>

\* C4 as stated: a regex_split or regex_replace call with a non-empty pattern
\* that the regex compiler rejects ends by reporting an error on the context,
\* the channel of InvalidArgument; no exception leaves the function and no
\* value or Null is reported.
C4_MalformedPatternReported ==
  (Called /\ fn \in {"regex_split", "regex_replace"} /\ ~AnyNull(argv)
      /\ sqlite3_value_text(argv[2]) # <<>>
      /\ ~boost_regex(sqlite3_value_text(argv[2])).ok) =>
    /\ pc = "returned"
    /\ Len(results) = 1
    /\ results[1].kind = "error"

\* C5: for a text a.b.c.d that parses as dotted-decimal IPv4, inet_aton returns
\* the integer whose bytes, most significant first, are 0 0 0 0 a b c d: the
\* value a*2^24 + b*2^16 + c*2^8 + d, in 0..2^32-1 and never negative.
C5_InetAtonBigEndian ==
  (Called /\ fn = "inet_aton" /\ ~AnyNull(argv)
      /\ ":" \notin Range(sqlite3_value_text(argv[1]))
      /\ inet_pton(sqlite3_value_text(argv[1])).ok) =>
    LET octets == inet_pton(sqlite3_value_text(argv[1])).bytes
    IN  /\ Len(octets) = 4
        /\ \A k \in 1..4 : octets[k] \in 0..255
        /\ Dotted(octets[1], octets[2], octets[3], octets[4]) = sqlite3_value_text(argv[1])
        /\ pc = "returned"
        /\ results = <<ResultInt64(<<0, 0, 0, 0>> \o octets)>>
        /\ results[1].int64[1] < 128

C5_Witness ==
  /\ fn = "inet_aton"
  /\ argv = <<Text(IpText)>>
  /\ results = <<ResultInt64(<<0, 0, 0, 0, 192, 168, 0, 1>>)>>

\* C6: inet_aton never reports an error: a text with a colon yields Null with
\* no parse attempted, a text that does not parse yields Null, and an integer is
\* returned only when the parse succeeds.
C6_InetAtonNeverErrors ==
  (Called /\ fn = "inet_aton") =>
    /\ pc = "returned"
    /\ Len(results) = 1
    /\ results[1].kind \in {"null", "integer"}
    /\ ~AnyNull(argv) =>
         LET address == sqlite3_value_text(argv[1])
         IN  /\ (":" \in Range(address)) => (results = <<ResultNull>> /\ ~computed)
             /\ ~inet_pton(address).ok => results = <<ResultNull>>
             /\ results[1].kind = "integer" =>
                  (":" \notin Range(address) /\ inet_pton(address).ok)

C6_Witness ==
  /\ fn = "inet_aton"
  /\ argv = <<Text(<<":", ":", "1">>)>>
  /\ results = <<ResultNull>>
  /\ ~computed

\* Whether the compiled pattern matches nowhere in text.
MatchesNothing(rx, text) ==
  \A p \in 1..(Len(text) + 1) : MatchAt(rx.atoms, 1, text, p) = 0

RECURSIVE JoinReplaced(_, _, _, _)
\* The pieces segs joined by the template expanded for each match of ms in turn.
JoinReplaced(segs, ms, text, fmt) ==
  IF ms = <<>> THEN segs[1]
  ELSE segs[1] \o Format(fmt, SubSeq(text, ms[1].s, ms[1].e - 1))
       \o JoinReplaced(Tail(segs), Tail(ms), text, fmt)

\* C7: regex_replace with no Null argument and a non-empty pattern that
\* compiles returns the input with every non-overlapping match, not the first
\* alone, replaced by the template; when the pattern matches nothing the result
\* is the input.
C7_ReplaceAllMatches ==
  (Called /\ fn = "regex_replace" /\ ~AnyNull(argv)
      /\ sqlite3_value_text(argv[2]) # <<>>
      /\ boost_regex(sqlite3_value_text(argv[2])).ok) =>
    LET input == sqlite3_value_text(argv[1])
        rx == boost_regex(sqlite3_value_text(argv[2]))
        fmt == sqlite3_value_text(argv[3])
        ms == AllMatches(rx.atoms, input, 1)
    IN  /\ pc = "returned"
        /\ results = <<ResultText(JoinReplaced(split_regex(input, rx), ms, input, fmt))>>
        /\ MatchesNothing(rx, input) => results = <<ResultText(input)>>
        /\ fmt = <<"$", "&">> => results = <<ResultText(input)>>
        /\ (fmt = <<"b">> /\ Len(rx.atoms) = 1 /\ ~rx.atoms[1].plus) =>
             results[1].text =
               [k \in 1..Len(input) |->
                  IF CharMatches(rx.atoms[1], input[k]) THEN "b" ELSE input[k]]

C7_Witness ==
  /\ fn = "regex_replace"
  /\ argv = <<Text(<<"a", ".", "a">>), Text(<<"a">>), Text(<<"b">>)>>
  /\ results = <<ResultText(<<"b", ".", "b">>)>>

\* The positions of s where a maximal run of characters outside D starts.
RunStarts(s, D) ==
  {p \in 1..Len(s) : s[p] \notin D /\ (p = 1 \/ s[p - 1] \in D)}

\* The last position of the maximal run that starts at p.
RunEnd(s, D, p) ==
  CHOOSE e \in p..Len(s) :
    /\ \A k \in p..e : s[k] \notin D
    /\ e = Len(s) \/ s[e + 1] \in D

C10_ExactlyOneResult ==
  pc = "returned" =>
    /\ fn \in FunctionNames
    /\ Len(results) = 1
    /\ results[1].kind \in {"null", "text", "integer", "error"}

C10_Witness ==
  /\ pc = "returned"
  /\ fn = "regex_split"
  /\ Len(results) = 1
  /\ results[1].kind = "error"

====
